---- MODULE Spec2Model ----
(***************************************************************************)
(* Model of the Result type, the generic CRUD orchestrator (BaseService),  *)
(* the legacy bridge (LegacyService), detectFramework, the API handler     *)
(* (APIHandler) and the route binder (createRoutes) of ignix-core.         *)
(*                                                                         *)
(* JavaScript values are tagged records, so that null, undefined, numbers, *)
(* strings, booleans, arrays, plain objects and Error instances stay       *)
(* distinct and truthiness / instanceof / template-literal conversion can  *)
(* be computed the way the runtime computes them.                          *)
(***************************************************************************)
EXTENDS Integers, Sequences, FiniteSets, TLC

\* ------------------------------------------------------------------ bounds
\* number of caller slots (each slot makes one orchestrator call)
NumCallers == 2
\* longest collection the repository returns from findAll
MaxEntities == 2

\* ------------------------------------------------------- JavaScript values
Null == [t |-> "null"]
Undefined == [t |-> "undefined"]
Num(n) == [t |-> "number", n |-> n]
Str(s) == [t |-> "string", s |-> s]
Bool(b) == [t |-> "boolean", b |-> b]
Obj(f) == [t |-> "object", fields |-> f]
Arr(items) == [t |-> "array", items |-> items]
\* new Error(message)
Err(m) == [t |-> "error", message |-> m]

\* JavaScript truthiness, as used by `!entity`, `!success`, `!data`, `x || y`
Truthy(v) ==
  CASE v.t = "null" -> FALSE
    [] v.t = "undefined" -> FALSE
    [] v.t = "boolean" -> v.b
    [] v.t = "number" -> v.n # 0
    [] v.t = "string" -> v.s # ""
    [] OTHER -> TRUE

\* `error instanceof Error`
InstanceOfError(v) == v.t = "error"

\* the string a template literal `${v}` produces for an identifier
TemplateString(v) ==
  CASE v.t = "number" -> ToString(v.n)
    [] v.t = "string" -> v.s
    [] v.t = "null" -> "null"
    [] v.t = "undefined" -> "undefined"
    [] OTHER -> "[object Object]"

\* Object.keys(v) for a non-nullish v: own enumerable keys; primitives
\* other than strings have none, a string has one key per character
ObjectKeys(v) ==
  CASE v.t = "object" -> DOMAIN v.fields
    [] v.t = "string" -> {ToString(i - 1) : i \in 1..Len(v.s)}
    [] OTHER -> {}

\* ------------------------------------------------------------- Result type
\* variant: a falsy message is not kept
ok_dropsFalsyMessage(data, message) ==
  [type |-> "success", data |-> data,
   message |-> IF Truthy(message) THEN message ELSE Undefined]

ok(data, message) == [type |-> "success", data |-> data, message |-> message]

fail(error, message) == [type |-> "failure", error |-> error, message |-> message]

\* ------------------------------------------------------------- input sets
\* the entities of the service tests: {id, name, email?}
Entities == {Obj([id |-> Num(1), name |-> Str("test1"), email |-> Str("test1@example.com")]),
             Obj([id |-> Num(2), name |-> Str("test2")])}

Ids == {Num(1), Num(99), Str("99")}
Options == {Undefined, Obj([name |-> Str("test1")])}
\* payloads of create / update: null, undefined, {}, {name: ""}, {name: "test2"}
Payloads == {Null, Undefined, Obj(<<>>), Obj([name |-> Str("")]), Obj([name |-> Str("test2")])}

\* values a collaborator may throw or reject with
Thrown == {Err("Connection failed"), Err(""), Str("boom"), Null,
           Obj([message |-> Str("disk full")]), Num(42),
           [t |-> "error", message |-> "duplicate key", code |-> "23505"]}

RECURSIVE SeqsUpTo(_, _)
SeqsUpTo(S, n) ==
  IF n = 0 THEN {<<>>}
  ELSE LET shorter == SeqsUpTo(S, n - 1)
       IN shorter \cup {Append(s, e) : s \in {q \in shorter : Len(q) = n - 1}, e \in S}

Ops == {"findAll", "findById", "findOne", "create", "update",
        "hardDelete", "softDelete", "restore", "count"}
IdOps == {"findById", "update", "hardDelete", "softDelete", "restore"}
DataOps == {"create", "update"}
OptionOps == {"findAll", "findOne", "count"}
DeleteOps == {"hardDelete", "softDelete", "restore"}

\* what the repository contract may return from each operation
RepoReturns(op) ==
  CASE op = "findAll" -> {Arr(q) : q \in SeqsUpTo(Entities, MaxEntities)}
    [] op \in {"findById", "findOne", "update"} -> Entities \cup {Null, Undefined}
    [] op = "create" -> Entities
    [] op \in DeleteOps -> {Bool(TRUE), Bool(FALSE), Null, Undefined, Num(1)}
    [] op = "count" -> {Num(0), Num(5)}

\* a settled repository call: it returned a value or threw / rejected
Returned(v) == [kind |-> "return", value |-> v]
Threw(e) == [kind |-> "throw", value |-> e]
RepoOutcomes(op) == {Returned(v) : v \in RepoReturns(op)} \cup {Threw(e) : e \in Thrown}

\* promise states
Pending == [st |-> "pending"]
Fulfilled(v) == [st |-> "fulfilled", value |-> v]
Rejected(e) == [st |-> "rejected", reason |-> e]

\* ----------------------------------------------------------------- state
VARIABLES
  svc,      \* the concrete service class constructed over the repository
  calls,    \* calls[c]: the orchestrator call of caller c: its arguments, what
            \* the repository and the mapping hook gave it, and its promise
  repoLog,  \* the repository operations invoked so far, in order
  legacy,   \* legacy[c]: the LegacyService call of caller c: its arguments,
            \* what the wrapped service resolved to, and its promise
  pure,     \* a call of one of the synchronous functions (ok, fail,
            \* detectFramework): its arguments and, once it returned, its value
  api       \* the presentation layer: the routes createRoutes registered, the
            \* request being handled, the calls made on the service and on
            \* the response, and the handler's promise

vars == <<svc, calls, repoLog, legacy, pure, api>>

Callers == 1..NumCallers

\* BaseService with its default hooks, the TestService of the service tests,
\* and a subclass whose mapping hook may reject
Services == {"BaseService", "TestService", "ThrowingService"}

\* ------------------------------------------------------------------ hooks
getResourceName(s) == IF s = "TestService" THEN "testEntity" ELSE "resource"

\* String.prototype.toUpperCase on the names in use
ToUpperCase(str) ==
  CASE str = "test1" -> "TEST1"
    [] str = "test2" -> "TEST2"
    [] OTHER -> str

\* variant: the default hook builds a response from the identifier alone
mapToResponse_defaultCopiesId(s, entity) ==
  IF s = "TestService"
  THEN Obj([id |-> entity.fields.id,
            displayName |-> Str(ToUpperCase(entity.fields.name.s)),
            hasEmail |-> Bool("email" \in DOMAIN entity.fields
                              /\ Truthy(entity.fields.email))])
  ELSE Obj([id |-> entity.fields.id])

\* the value mapToResponse resolves to
mapToResponse(s, entity) ==
  IF s = "TestService"
  THEN Obj([id |-> entity.fields.id,
            displayName |-> Str(ToUpperCase(entity.fields.name.s)),
            hasEmail |-> Bool("email" \in DOMAIN entity.fields
                              /\ Truthy(entity.fields.email))])
  ELSE entity

\* how a mapToResponse promise may settle
HookOutcomes(s, entity) ==
  {Fulfilled(mapToResponse(s, entity))}
    \cup (IF s = "ThrowingService" THEN {Rejected(e) : e \in Thrown} ELSE {})

\* ------------------------------------------------- orchestrator (BaseService)
\* how far an operation got: awaiting the repository, awaiting the mapping
\* hook for the given entities, or completed with a settled promise
\* variant: the repository call is raced against a timer that has fired
AwaitRepo_timedOut ==
  [pc |-> "awaitRepo", entities |-> <<>>,
   outcome |-> Fulfilled(fail([type |-> "database", message |-> "Timeout"],
                              Undefined))]

AwaitRepo == [pc |-> "awaitRepo", entities |-> <<>>, outcome |-> Pending]
AwaitMap(entities) == [pc |-> "awaitMap", entities |-> entities, outcome |-> Pending]
Done(outcome) == [pc |-> "done", entities |-> <<>>, outcome |-> outcome]

\* `!data || Object.keys(data).length === 0`
\* variant: a payload whose values are all empty strings counts as empty
IsEmptyData_deep(data) ==
  \/ ~Truthy(data)
  \/ Cardinality(ObjectKeys(data)) = 0
  \/ (data.t = "object" /\ \A f \in DOMAIN data.fields : data.fields[f] = Str(""))

IsEmptyData(data) == ~Truthy(data) \/ Cardinality(ObjectKeys(data)) = 0

\* variant: the fallback also replaces an empty Error message
catchBlock_emptyFallsBack(error) ==
  Done(Fulfilled(fail([type |-> "database",
                       message |-> IF InstanceOfError(error) /\ error.message # ""
                                   THEN error.message
                                   ELSE "Database error"], Undefined)))

\* variant: the code of a driver error is copied into the database error
catchBlock_keepsCode(error) ==
  Done(Fulfilled(fail(IF InstanceOfError(error) /\ "code" \in DOMAIN error
                      THEN [type |-> "database", message |-> error.message,
                            code |-> error.code]
                      ELSE [type |-> "database",
                            message |-> IF InstanceOfError(error) THEN error.message
                                        ELSE "Database error"], Undefined)))

\* the catch block shared by the nine operations
catchBlock(error) ==
  Done(Fulfilled(fail([type |-> "database",
                       message |-> IF InstanceOfError(error) THEN error.message
                                   ELSE "Database error"], Undefined)))

\* variant: the resource name is used where the identifier belongs
notFound_wrongId(s, id) ==
  Done(Fulfilled(fail([type |-> "not_found",
                       message |-> getResourceName(s) \o " with id "
                                     \o TemplateString(id) \o " not found",
                       resource |-> getResourceName(s),
                       id |-> Str(getResourceName(s))], Undefined)))

\* variant: the identifier is kept in a field of the service, which every
\* call overwrites when it reaches the repository
notFound_sharedId(s, id) ==
  LET last == repoLog[Len(repoLog)].args[1] IN
    Done(Fulfilled(fail([type |-> "not_found",
                         message |-> getResourceName(s) \o " with id "
                                       \o TemplateString(last) \o " not found",
                         resource |-> getResourceName(s),
                         id |-> last], Undefined)))

\* the not_found failure of findById, update, hardDelete, softDelete, restore
notFound(s, id) ==
  Done(Fulfilled(fail([type |-> "not_found",
                       message |-> getResourceName(s) \o " with id "
                                     \o TemplateString(id) \o " not found",
                       resource |-> getResourceName(s),
                       id |-> id], Undefined)))

\* variant: the error does not name the offending field
validationFailure_noField(text) ==
  Done(Fulfilled(fail([type |-> "validation", message |-> text], Undefined)))

\* the validation failure of create and update
validationFailure(text) ==
  Done(Fulfilled(fail([type |-> "validation", field |-> "data", message |-> text],
                      Undefined)))

\* Each operation below is the body of the method up to its next await.
\* r is NotCalled before the repository has been invoked, and the settled
\* repository call afterwards.
NotCalled == [kind |-> "none"]

\* variant: only the first entity of the collection is mapped
findAll_mapsFirst(s, options, r) ==
  IF r = NotCalled THEN AwaitRepo
  ELSE IF r.kind = "throw" THEN catchBlock(r.value)
  ELSE IF Len(r.value.items) = 0 THEN Done(Fulfilled(ok(Arr(<<>>), Undefined)))
  ELSE AwaitMap(<<r.value.items[1]>>)

findAll(s, options, r) ==
  IF r = NotCalled THEN AwaitRepo
  ELSE IF r.kind = "throw" THEN catchBlock(r.value)
  ELSE IF Len(r.value.items) = 0 THEN Done(Fulfilled(ok(Arr(<<>>), Undefined)))
  ELSE AwaitMap(r.value.items)

findById(s, id, r) ==
  IF r = NotCalled THEN AwaitRepo
  ELSE IF r.kind = "throw" THEN catchBlock(r.value)
  ELSE IF ~Truthy(r.value) THEN notFound(s, id)
  ELSE AwaitMap(<<r.value>>)

\* variant: absence is reported as for findById
findOne_absenceFails(s, options, r) ==
  IF r = NotCalled THEN AwaitRepo
  ELSE IF r.kind = "throw" THEN catchBlock(r.value)
  ELSE IF ~Truthy(r.value) THEN notFound(s, Undefined)
  ELSE AwaitMap(<<r.value>>)

findOne(s, options, r) ==
  IF r = NotCalled THEN AwaitRepo
  ELSE IF r.kind = "throw" THEN catchBlock(r.value)
  ELSE IF ~Truthy(r.value) THEN Done(Fulfilled(ok(Null, Undefined)))
  ELSE AwaitMap(<<r.value>>)

create(s, data, r) ==
  IF IsEmptyData(data) THEN validationFailure("Create data cannot be empty")
  ELSE IF r = NotCalled THEN AwaitRepo
  ELSE IF r.kind = "throw" THEN catchBlock(r.value)
  ELSE AwaitMap(<<r.value>>)

\* variant: the payload is checked after the repository call
update_lateCheck(s, id, data, r) ==
  IF r = NotCalled THEN AwaitRepo
  ELSE IF IsEmptyData(data) THEN validationFailure("Update data cannot be empty")
  ELSE IF r.kind = "throw" THEN catchBlock(r.value)
  ELSE IF ~Truthy(r.value) THEN notFound(s, id)
  ELSE AwaitMap(<<r.value>>)

\* variant: a throwing repository is reported as absence
update_throwIsAbsence(s, id, data, r) ==
  IF IsEmptyData(data) THEN validationFailure("Update data cannot be empty")
  ELSE IF r = NotCalled THEN AwaitRepo
  ELSE IF r.kind = "throw" \/ ~Truthy(r.value) THEN notFound(s, id)
  ELSE AwaitMap(<<r.value>>)

update(s, id, data, r) ==
  IF IsEmptyData(data) THEN validationFailure("Update data cannot be empty")
  ELSE IF r = NotCalled THEN AwaitRepo
  ELSE IF r.kind = "throw" THEN catchBlock(r.value)
  ELSE IF ~Truthy(r.value) THEN notFound(s, id)
  ELSE AwaitMap(<<r.value>>)

\* variant: the repository's flag is handed on as the payload
hardDelete_returnsFlag(s, id, r) ==
  IF r = NotCalled THEN AwaitRepo
  ELSE IF r.kind = "throw" THEN catchBlock(r.value)
  ELSE Done(Fulfilled(ok(r.value, Undefined)))

hardDelete(s, id, r) ==
  IF r = NotCalled THEN AwaitRepo
  ELSE IF r.kind = "throw" THEN catchBlock(r.value)
  ELSE IF ~Truthy(r.value) THEN notFound(s, id)
  ELSE Done(Fulfilled(ok(Bool(TRUE), Undefined)))

softDelete(s, id, r) ==
  IF r = NotCalled THEN AwaitRepo
  ELSE IF r.kind = "throw" THEN catchBlock(r.value)
  ELSE IF ~Truthy(r.value) THEN notFound(s, id)
  ELSE Done(Fulfilled(ok(Bool(TRUE), Undefined)))

restore(s, id, r) ==
  IF r = NotCalled THEN AwaitRepo
  ELSE IF r.kind = "throw" THEN catchBlock(r.value)
  ELSE IF ~Truthy(r.value) THEN notFound(s, id)
  ELSE Done(Fulfilled(ok(Bool(TRUE), Undefined)))

\* variant: no try / catch around the repository call
count_noCatch(s, options, r) ==
  IF r = NotCalled THEN AwaitRepo
  ELSE IF r.kind = "throw" THEN Done(Rejected(r.value))
  ELSE Done(Fulfilled(ok(r.value, Undefined)))

count(s, options, r) ==
  IF r = NotCalled THEN AwaitRepo
  ELSE IF r.kind = "throw" THEN catchBlock(r.value)
  ELSE Done(Fulfilled(ok(r.value, Undefined)))

\* the repository call each operation makes: `this.repo.<op>(...)` with the
\* arguments the method passes on
repoCall(op, id, data, options) ==
  CASE op = "findAll" -> [op |-> "findAll", args |-> <<options>>]
    [] op = "findById" -> [op |-> "findById", args |-> <<id>>]
    [] op = "findOne" -> [op |-> "findOne", args |-> <<options>>]
    [] op = "create" -> [op |-> "create", args |-> <<data>>]
    [] op = "update" -> [op |-> "update", args |-> <<id, data>>]
    [] op = "hardDelete" -> [op |-> "hardDelete", args |-> <<id>>]
    [] op = "softDelete" -> [op |-> "softDelete", args |-> <<id>>]
    [] op = "restore" -> [op |-> "restore", args |-> <<id>>]
    [] op = "count" -> [op |-> "count", args |-> <<options>>]

\* dispatch on the operation's name
Body(s, op, id, data, options, r) ==
  CASE op = "findAll" -> findAll(s, options, r)
    [] op = "findById" -> findById(s, id, r)
    [] op = "findOne" -> findOne(s, options, r)
    [] op = "create" -> create(s, data, r)
    [] op = "update" -> update(s, id, data, r)
    [] op = "hardDelete" -> hardDelete(s, id, r)
    [] op = "softDelete" -> softDelete(s, id, r)
    [] op = "restore" -> restore(s, id, r)
    [] op = "count" -> count(s, options, r)

\* variant: the mapping call is outside the try block
mapRejected_uncaught(error) == Done(Rejected(error))

\* a mapping promise rejected inside the try block: `await` throws there
mapRejected(error) == catchBlock(error)

\* variant: every mapping promise is waited for, then the rejection of the
\* lowest index is reported
afterMap_allSettled(op, entities, maps) ==
  IF \E i \in DOMAIN maps : maps[i].st = "pending" THEN AwaitMap(entities)
  ELSE IF \E i \in DOMAIN maps : maps[i].st = "rejected"
  THEN LET first == CHOOSE i \in DOMAIN maps :
                      /\ maps[i].st = "rejected"
                      /\ \A j \in 1..(i - 1) : maps[j].st # "rejected"
       IN mapRejected(maps[first].reason)
  ELSE Done(Fulfilled(ok(IF op = "findAll"
                         THEN Arr([i \in DOMAIN maps |-> maps[i].value])
                         ELSE maps[1].value, Undefined)))

\* variant: the responses are collected in reverse order
afterMap_reversed(op, entities, maps) ==
  IF \E i \in DOMAIN maps : maps[i].st = "rejected"
  THEN mapRejected(maps[CHOOSE i \in DOMAIN maps : maps[i].st = "rejected"].reason)
  ELSE IF \A i \in DOMAIN maps : maps[i].st = "fulfilled"
  THEN Done(Fulfilled(ok(IF op = "findAll"
                         THEN Arr([i \in DOMAIN maps |-> maps[Len(maps) + 1 - i].value])
                         ELSE maps[1].value, Undefined)))
  ELSE AwaitMap(entities)

\* the rest of the method once mapping promises settle: `await
\* this.mapToResponse(entity)` for one entity, `await Promise.all(...)` for
\* findAll (rejects with the first rejection, fulfils in index order when
\* every element has fulfilled, stays pending otherwise)
afterMap(op, entities, maps) ==
  IF \E i \in DOMAIN maps : maps[i].st = "rejected"
  THEN mapRejected(maps[CHOOSE i \in DOMAIN maps : maps[i].st = "rejected"].reason)
  ELSE IF \A i \in DOMAIN maps : maps[i].st = "fulfilled"
  THEN Done(Fulfilled(ok(IF op = "findAll"
                         THEN Arr([i \in DOMAIN maps |-> maps[i].value])
                         ELSE maps[1].value, Undefined)))
  ELSE AwaitMap(entities)

\* ------------------------------------------------ legacy bridge (LegacyService)
\* `throw new Error((result.error as ServiceError).message)`
throwError(result) == Rejected(Err(result.error.message))

Legacy_findAll(result) ==
  IF result.type = "success" THEN Fulfilled(result.data) ELSE throwError(result)

\* variant: a not_found Failure is turned into null
Legacy_findById_nullWhenAbsent(result) ==
  IF result.type = "success" THEN Fulfilled(result.data)
  ELSE IF result.error.type = "not_found" THEN Fulfilled(Null)
  ELSE throwError(result)

Legacy_findById(result) ==
  IF result.type = "success" THEN Fulfilled(result.data) ELSE throwError(result)

Legacy_findOne(result) ==
  IF result.type = "success" THEN Fulfilled(result.data) ELSE throwError(result)

Legacy_create(result) ==
  IF result.type = "success" THEN Fulfilled(result.data) ELSE throwError(result)

\* variant: the payload is returned as it is
Legacy_update_asIs(result) ==
  IF result.type = "success" THEN Fulfilled(result.data) ELSE throwError(result)

\* `result.data || null`
Legacy_update(result) ==
  IF result.type = "success"
  THEN Fulfilled(IF Truthy(result.data) THEN result.data ELSE Null)
  ELSE throwError(result)

\* variant: the Result's own message is thrown
Legacy_hardDelete_outerMessage(result) ==
  IF result.type = "success" THEN Fulfilled(result.data)
  ELSE Rejected(Err(IF result.message.t = "string" THEN result.message.s ELSE ""))

Legacy_hardDelete(result) ==
  IF result.type = "success" THEN Fulfilled(result.data) ELSE throwError(result)

Legacy_softDelete(result) ==
  IF result.type = "success" THEN Fulfilled(result.data) ELSE throwError(result)

Legacy_restore(result) ==
  IF result.type = "success" THEN Fulfilled(result.data) ELSE throwError(result)

Legacy_count(result) ==
  IF result.type = "success" THEN Fulfilled(result.data) ELSE throwError(result)

\* `return this.service.mapToResponse(entity)`
Legacy_mapToResponse(response) == Fulfilled(response)

\* variant: hardDelete is routed to the wrapped service's softDelete
serviceCall_rerouted(op, id, data, options, entity) ==
  CASE op \in {"findAll", "findOne", "count"} -> [op |-> op, args |-> <<options>>]
    [] op \in {"findById", "softDelete", "restore"} -> [op |-> op, args |-> <<id>>]
    [] op = "hardDelete" -> [op |-> "softDelete", args |-> <<id>>]
    [] op = "create" -> [op |-> "create", args |-> <<data>>]
    [] op = "update" -> [op |-> "update", args |-> <<id, data>>]
    [] op = "mapToResponse" -> [op |-> "mapToResponse", args |-> <<entity>>]

\* the call each bridge method makes: `this.service.<op>(...)` with the
\* arguments the method passes on
serviceCall(op, id, data, options, entity) ==
  CASE op = "findAll" -> [op |-> "findAll", args |-> <<options>>]
    [] op = "findById" -> [op |-> "findById", args |-> <<id>>]
    [] op = "findOne" -> [op |-> "findOne", args |-> <<options>>]
    [] op = "create" -> [op |-> "create", args |-> <<data>>]
    [] op = "update" -> [op |-> "update", args |-> <<id, data>>]
    [] op = "hardDelete" -> [op |-> "hardDelete", args |-> <<id>>]
    [] op = "softDelete" -> [op |-> "softDelete", args |-> <<id>>]
    [] op = "restore" -> [op |-> "restore", args |-> <<id>>]
    [] op = "count" -> [op |-> "count", args |-> <<options>>]
    [] op = "mapToResponse" -> [op |-> "mapToResponse", args |-> <<entity>>]

\* the bridge method of the given name, resumed with the settled promise of
\* the wrapped service's method: `await` of a rejected promise throws
LegacyBody(op, settled) ==
  IF settled.st = "rejected" THEN settled
  ELSE CASE op = "findAll" -> Legacy_findAll(settled.value)
         [] op = "findById" -> Legacy_findById(settled.value)
         [] op = "findOne" -> Legacy_findOne(settled.value)
         [] op = "create" -> Legacy_create(settled.value)
         [] op = "update" -> Legacy_update(settled.value)
         [] op = "hardDelete" -> Legacy_hardDelete(settled.value)
         [] op = "softDelete" -> Legacy_softDelete(settled.value)
         [] op = "restore" -> Legacy_restore(settled.value)
         [] op = "count" -> Legacy_count(settled.value)
         [] op = "mapToResponse" -> Legacy_mapToResponse(settled.value)

\* payloads a wrapped service may succeed with
SuccessPayloads ==
  Entities \cup {Null, Undefined, Num(0), Num(5), Str(""), Bool(FALSE), Bool(TRUE),
                 Arr(<<>>)}

\* errors a wrapped service may fail with, one of each variant
ServiceErrors ==
  {[type |-> "database", message |-> "Connection failed", code |-> "ECONN"],
   [type |-> "validation", field |-> "email", message |-> "Invalid email"],
   [type |-> "not_found", message |-> "Not found", resource |-> "user", id |-> Num(1)]}

\* the optional message of a Result
ResultMessages == {Undefined, Str("note")}

\* how the promise of a wrapped IService method may settle
ServiceOutcomes ==
  {Fulfilled(ok(v, m)) : v \in SuccessPayloads, m \in ResultMessages}
    \cup {Fulfilled(fail(e, m)) : e \in ServiceErrors, m \in ResultMessages}
    \cup {Rejected(Err("Service crashed"))}

\* how the promise of the wrapped service's mapToResponse may settle
ServiceMapOutcomes(entity) ==
  {Fulfilled(entity), Fulfilled(mapToResponse("TestService", entity)),
   Rejected(Err("Service crashed"))}

\* the methods of the bridge
LegacyOps == Ops \cup {"mapToResponse"}

\* -------------------------------------------------------------- behaviour
Idle == [pc |-> "idle", op |-> "none", id |-> Undefined, data |-> Undefined,
         options |-> Undefined, repo |-> NotCalled, entities |-> <<>>,
         maps |-> <<>>, order |-> <<>>, outcome |-> Pending]

\* no synchronous function has been called
NotApplied == [fn |-> "none", args |-> <<>>, pc |-> "idle", out |-> Undefined]

LegacyIdle == [pc |-> "idle", op |-> "none", id |-> Undefined, data |-> Undefined,
               options |-> Undefined, entity |-> Undefined, svcCalls |-> <<>>,
               result |-> Pending, outcome |-> Pending]

\* nothing registered, no request handled
NoRequest == [pc |-> "idle", routeKey |-> "none", bound |-> FALSE, routes |-> <<>>,
              via |-> "none", handler |-> "none", req |-> Undefined,
              chain |-> <<>>, svcCalls |-> <<>>, result |-> Pending,
              res |-> <<>>, outcome |-> Pending]

Init ==
  /\ svc \in Services
  /\ calls = [c \in Callers |-> Idle]
  /\ repoLog = <<>>
  /\ legacy = [c \in Callers |-> LegacyIdle]
  /\ pure = NotApplied
  /\ api = NoRequest

\* caller c calls operation op; the method runs up to its first await
Invoke(c) ==
  /\ calls[c].pc = "idle"
  /\ \E op \in Ops :
     \E id \in (IF op \in IdOps THEN Ids ELSE {Undefined}) :
     \E data \in (IF op \in DataOps THEN Payloads ELSE {Undefined}) :
     \E options \in (IF op \in OptionOps THEN Options ELSE {Undefined}) :
       LET stage == Body(svc, op, id, data, options, NotCalled) IN
         /\ calls' = [calls EXCEPT ![c] =
                        [pc |-> stage.pc, op |-> op, id |-> id, data |-> data,
                         options |-> options, repo |-> NotCalled,
                         entities |-> <<>>, maps |-> <<>>, order |-> <<>>,
                         outcome |-> stage.outcome]]
         /\ repoLog' = IF stage.pc = "awaitRepo"
                       THEN LET call == repoCall(op, id, data, options) IN
                              Append(repoLog, [caller |-> c, op |-> call.op,
                                               args |-> call.args])
                       ELSE repoLog
  /\ UNCHANGED <<svc, legacy, pure, api>>

\* variant: a failed repository call is tried a second time
RepoSettle_retry(c) ==
  /\ calls[c].pc = "awaitRepo"
  /\ \E r \in RepoOutcomes(calls[c].op) :
       LET k == calls[c]
           stage == Body(svc, k.op, k.id, k.data, k.options, r)
           call == repoCall(k.op, k.id, k.data, k.options)
           tried == Len(SelectSeq(repoLog, LAMBDA e : e.caller = c)) IN
         IF r.kind = "throw" /\ tried < 2
         THEN /\ repoLog' = Append(repoLog, [caller |-> c, op |-> call.op,
                                             args |-> call.args])
              /\ UNCHANGED calls
         ELSE /\ calls' = [calls EXCEPT ![c] =
                     [k EXCEPT !.pc = stage.pc, !.repo = r,
                               !.entities = stage.entities,
                               !.maps = [i \in DOMAIN stage.entities |-> Pending],
                               !.outcome = stage.outcome]]
              /\ UNCHANGED repoLog
  /\ UNCHANGED <<svc, legacy, pure, api>>

\* the repository call of caller c settles and the method resumes; when it
\* reaches the mapping hook, one mapToResponse promise per entity is created
RepoSettle(c) ==
  /\ calls[c].pc = "awaitRepo"
  /\ \E r \in RepoOutcomes(calls[c].op) :
       LET k == calls[c]
           stage == Body(svc, k.op, k.id, k.data, k.options, r) IN
         calls' = [calls EXCEPT ![c] =
                     [k EXCEPT !.pc = stage.pc, !.repo = r,
                               !.entities = stage.entities,
                               !.maps = [i \in DOMAIN stage.entities |-> Pending],
                               !.outcome = stage.outcome]]
  /\ UNCHANGED <<svc, repoLog, legacy, pure, api>>

\* variant: the responses are collected in the order the mapping calls
\* complete
MapSettle_byCompletion(c) ==
  /\ calls[c].pc = "awaitMap"
  /\ \E i \in DOMAIN calls[c].maps :
       /\ calls[c].maps[i].st = "pending"
       /\ \E m \in HookOutcomes(svc, calls[c].entities[i]) :
            LET k == calls[c]
                maps == [k.maps EXCEPT ![i] = m]
                order == Append(k.order, i)
                arrived == [j \in DOMAIN maps |->
                              IF j <= Len(order) THEN maps[order[j]] ELSE Pending]
                stage == afterMap(k.op, k.entities, arrived) IN
              calls' = [calls EXCEPT ![c] =
                          [k EXCEPT !.pc = stage.pc, !.maps = maps,
                                    !.order = order,
                                    !.outcome = stage.outcome]]
  /\ UNCHANGED <<svc, repoLog, legacy, pure, api>>

\* one pending mapToResponse promise of caller c settles; order records the
\* indexes of the mapping calls in the order they completed
MapSettle(c) ==
  /\ calls[c].pc = "awaitMap"
  /\ \E i \in DOMAIN calls[c].maps :
       /\ calls[c].maps[i].st = "pending"
       /\ \E m \in HookOutcomes(svc, calls[c].entities[i]) :
            LET k == calls[c]
                maps == [k.maps EXCEPT ![i] = m]
                stage == afterMap(k.op, k.entities, maps) IN
              calls' = [calls EXCEPT ![c] =
                          [k EXCEPT !.pc = stage.pc, !.maps = maps,
                                    !.order = Append(k.order, i),
                                    !.outcome = stage.outcome]]
  /\ UNCHANGED <<svc, repoLog, legacy, pure, api>>

\* a mapToResponse promise of caller c that is still pending when the method
\* has returned settles: nothing awaits it any more
LateMapSettle(c) ==
  /\ calls[c].pc = "done"
  /\ \E i \in DOMAIN calls[c].maps :
       /\ calls[c].maps[i].st = "pending"
       /\ \E m \in HookOutcomes(svc, calls[c].entities[i]) :
            calls' = [calls EXCEPT ![c] =
                        [@ EXCEPT !.maps = [calls[c].maps EXCEPT ![i] = m],
                                  !.order = Append(calls[c].order, i)]]
  /\ UNCHANGED <<svc, repoLog, legacy, pure, api>>

\* a single caller: one operation runs from its call to its completion while
\* the other caller slots stay idle
Next == Invoke(1) \/ RepoSettle(1) \/ MapSettle(1)

Spec == Init /\ [][Next]_vars

\* Spec followed past the completion of the call, while the mapping promises
\* the method no longer awaits settle
MappingNext == Invoke(1) \/ RepoSettle(1) \/ MapSettle(1) \/ LateMapSettle(1)

SpecMapping == Init /\ [][MappingNext]_vars

\* Spec with collaborators that answer: a pending repository call and a
\* pending mapToResponse call eventually settle, and the method waiting for
\* them is then resumed
SpecSettling ==
  Spec /\ WF_vars(RepoSettle(1)) /\ WF_vars(MapSettle(1))

\* Several callers use the same service at once: their calls start, and
\* their awaits resume, in any order.  The inputs are a part of those of
\* Spec: three operations, two identifiers, an empty and a non-empty payload,
\* and per collaborator one value returned, one absence and two failures.
ReentrantOps == {"findById", "update", "count"}
ReentrantIds == {Num(1), Num(99)}
ReentrantPayloads == {Obj(<<>>), Obj([name |-> Str("test2")])}
ReentrantRepoOutcomes ==
  {Returned(Obj([id |-> Num(2), name |-> Str("test2")])), Returned(Null),
   Returned(Num(5)), Threw(Err("Connection failed")), Threw(Str("boom"))}
ReentrantHookFailures == {Rejected(Err("Connection failed"))}

ReentrantInvoke(c) ==
  /\ Invoke(c)
  /\ calls'[c].op \in ReentrantOps
  /\ calls'[c].id \in ReentrantIds \cup {Undefined}
  /\ calls'[c].data \in ReentrantPayloads \cup {Undefined}
  /\ calls'[c].options = Undefined

ReentrantRepoSettle(c) ==
  /\ RepoSettle(c)
  /\ calls'[c].repo \in ReentrantRepoOutcomes

ReentrantMapSettle(c) ==
  /\ MapSettle(c)
  /\ \A i \in DOMAIN calls'[c].maps :
       calls'[c].maps[i].st = "rejected" => calls'[c].maps[i] \in ReentrantHookFailures

ReentrantNext ==
  \E c \in Callers :
    ReentrantInvoke(c) \/ ReentrantRepoSettle(c) \/ ReentrantMapSettle(c)

SpecReentrant == Init /\ [][ReentrantNext]_vars

\* caller c calls operation op of the bridge, which calls the same
\* operation of the wrapped service and awaits it
LegacyInvoke(c) ==
  /\ legacy[c].pc = "idle"
  /\ \E op \in LegacyOps :
     \E id \in (IF op \in IdOps THEN Ids ELSE {Undefined}) :
     \E data \in (IF op \in DataOps THEN Payloads ELSE {Undefined}) :
     \E options \in (IF op \in OptionOps THEN Options ELSE {Undefined}) :
     \E entity \in (IF op = "mapToResponse" THEN Entities ELSE {Undefined}) :
       legacy' = [legacy EXCEPT ![c] =
                    [pc |-> "awaitService", op |-> op, id |-> id, data |-> data,
                     options |-> options, entity |-> entity,
                     svcCalls |-> <<serviceCall(op, id, data, options, entity)>>,
                     result |-> Pending, outcome |-> Pending]]
  /\ UNCHANGED <<svc, calls, repoLog, pure, api>>

\* the wrapped service's promise settles and the bridge method resumes
ServiceSettle(c) ==
  /\ legacy[c].pc = "awaitService"
  /\ \E settled \in (IF legacy[c].op = "mapToResponse"
                      THEN ServiceMapOutcomes(legacy[c].entity)
                      ELSE ServiceOutcomes) :
       legacy' = [legacy EXCEPT ![c] =
                    [@ EXCEPT !.pc = "done", !.result = settled,
                              !.outcome = LegacyBody(legacy[c].op, settled)]]
  /\ UNCHANGED <<svc, calls, repoLog, pure, api>>

\* the bridge over an arbitrary Result-returning service
LegacyNext == LegacyInvoke(1) \/ ServiceSettle(1)

SpecLegacy == Init /\ [][LegacyNext]_vars

\* ------------------------------------- the bridge over a BaseService instance
\* the parameters the service method binds from the arguments of a call
received(call) ==
  [id |-> IF call.op \in IdOps THEN call.args[1] ELSE Undefined,
   data |-> CASE call.op = "create" -> call.args[1]
              [] call.op = "update" -> call.args[2]
              [] OTHER -> Undefined,
   options |-> IF call.op \in OptionOps THEN call.args[1] ELSE Undefined]

\* caller c calls a bridge method, which calls the wrapped BaseService's
\* method; that one runs up to its first await
BridgeInvoke(c) ==
  /\ legacy[c].pc = "idle" /\ calls[c].pc = "idle"
  /\ \E op \in Ops :
     \E id \in (IF op \in IdOps THEN Ids ELSE {Undefined}) :
     \E data \in (IF op \in DataOps THEN Payloads ELSE {Undefined}) :
     \E options \in (IF op \in OptionOps THEN Options ELSE {Undefined}) :
       LET call == serviceCall(op, id, data, options, Undefined)
           in == received(call)
           stage == Body(svc, call.op, in.id, in.data, in.options, NotCalled) IN
         /\ legacy' = [legacy EXCEPT ![c] =
                         [pc |-> "awaitService", op |-> op, id |-> id,
                          data |-> data, options |-> options,
                          entity |-> Undefined, svcCalls |-> <<call>>,
                          result |-> Pending, outcome |-> Pending]]
         /\ calls' = [calls EXCEPT ![c] =
                        [pc |-> stage.pc, op |-> call.op, id |-> in.id,
                         data |-> in.data, options |-> in.options,
                         repo |-> NotCalled, entities |-> <<>>, maps |-> <<>>,
                         order |-> <<>>, outcome |-> stage.outcome]]
         /\ repoLog' = IF stage.pc = "awaitRepo"
                       THEN LET rc == repoCall(call.op, in.id, in.data, in.options) IN
                              Append(repoLog, [caller |-> c, op |-> rc.op,
                                               args |-> rc.args])
                       ELSE repoLog
  /\ UNCHANGED <<svc, pure, api>>

\* the BaseService method has returned its Result and the bridge method
\* resumes with it
BridgeResume(c) ==
  /\ legacy[c].pc = "awaitService" /\ calls[c].pc = "done"
  /\ legacy' = [legacy EXCEPT ![c] =
                  [@ EXCEPT !.pc = "done", !.result = calls[c].outcome,
                            !.outcome = LegacyBody(legacy[c].op, calls[c].outcome)]]
  /\ UNCHANGED <<svc, calls, repoLog, pure, api>>

BridgeNext ==
  BridgeInvoke(1) \/ RepoSettle(1) \/ MapSettle(1) \/ BridgeResume(1)

SpecBridge == Init /\ [][BridgeNext]_vars

\* ------------------------------------------------ the Result constructors
\* the value bound to the i-th parameter of a call with arguments args: an
\* omitted argument is undefined
Param(args, i) == IF i <= Len(args) THEN args[i] ELSE Undefined

\* data / error values and messages the constructors are called with
ResultValues == SuccessPayloads \cup ServiceErrors
ResultArgs ==
  {<<x>> : x \in ResultValues}
    \cup {<<x, m>> : x \in ResultValues, m \in {Undefined, Str(""), Str("note")}}

InitResult ==
  /\ svc = "BaseService"
  /\ calls = [c \in Callers |-> Idle]
  /\ repoLog = <<>>
  /\ legacy = [c \in Callers |-> LegacyIdle]
  /\ pure \in {[fn |-> f, args |-> a, pc |-> "called", out |-> Undefined] :
                 f \in {"ok", "fail"}, a \in ResultArgs}
  /\ api = NoRequest

\* ok(data, message?) returns
CallOk ==
  /\ pure.pc = "called" /\ pure.fn = "ok"
  /\ pure' = [pure EXCEPT !.pc = "returned",
                          !.out = ok(Param(pure.args, 1), Param(pure.args, 2))]
  /\ UNCHANGED <<svc, calls, repoLog, legacy, api>>

\* fail(error, message?) returns
CallFail ==
  /\ pure.pc = "called" /\ pure.fn = "fail"
  /\ pure' = [pure EXCEPT !.pc = "returned",
                          !.out = fail(Param(pure.args, 1), Param(pure.args, 2))]
  /\ UNCHANGED <<svc, calls, repoLog, legacy, api>>

ResultNext == CallOk \/ CallFail

SpecResult == InitResult /\ [][ResultNext]_vars

\* -------------------------------------------------------- detectFramework
\* a function value (typeof "function") with the given own properties
Fn(f) == [t |-> "function", fields |-> f]
\* Object.create(proto) with own properties f added
ObjectCreate(proto, f) == [t |-> "object", fields |-> f, proto |-> proto]

\* `typeof v`
TypeOf(v) ==
  CASE v.t \in {"undefined", "number", "string", "boolean", "function"} -> v.t
    [] OTHER -> "object"

\* `name in v` for an object or function v: an own or an inherited property
RECURSIVE HasProperty(_, _)
HasProperty(v, name) ==
  \/ ("fields" \in DOMAIN v /\ name \in DOMAIN v.fields)
  \/ ("proto" \in DOMAIN v /\ HasProperty(v.proto, name))

\* variant: route is looked up before register
detectFramework_routeFirst(app) ==
  IF ~Truthy(app) \/ TypeOf(app) # "object" THEN "express"
  ELSE IF HasProperty(app, "route") THEN "hono"
  ELSE IF HasProperty(app, "register") THEN "fastify"
  ELSE "express"

detectFramework(app) ==
  IF ~Truthy(app) \/ TypeOf(app) # "object" THEN "express"
  ELSE IF HasProperty(app, "register") THEN "fastify"
  ELSE IF HasProperty(app, "route") THEN "hono"
  ELSE "express"

\* property names and property values of the apps handed to detectFramework
PropNames == {"register", "route", "get"}
PropValues == {Fn(<<>>), Str("not a function"), Num(42), Null, Undefined}
PropertyBags == UNION {[names -> PropValues] : names \in SUBSET PropNames}
Methods == UNION {[names -> {Fn(<<>>)}] : names \in SUBSET PropNames}

\* the inputs: plain objects, objects inheriting from a prototype, arrays,
\* callable apps, and values that are not objects
Apps ==
  {Obj(f) : f \in PropertyBags}
    \cup {ObjectCreate(Obj(p), f) : p \in Methods, f \in Methods}
    \cup {Fn(f) : f \in Methods}
    \cup {Arr(<<>>), Arr(<<Str("register")>>), Err("register")}
    \cup {Null, Undefined, Num(0), Num(42), Str(""), Str("register"),
          Bool(FALSE), Bool(TRUE)}

InitDetect ==
  /\ svc = "BaseService"
  /\ calls = [c \in Callers |-> Idle]
  /\ repoLog = <<>>
  /\ legacy = [c \in Callers |-> LegacyIdle]
  /\ pure \in {[fn |-> "detectFramework", args |-> <<app>>, pc |-> "called",
                out |-> Undefined] : app \in Apps}
  /\ api = NoRequest

\* detectFramework(app) returns
CallDetectFramework ==
  /\ pure.pc = "called" /\ pure.fn = "detectFramework"
  /\ pure' = [pure EXCEPT !.pc = "returned",
                          !.out = Str(detectFramework(Param(pure.args, 1)))]
  /\ UNCHANGED <<svc, calls, repoLog, legacy, api>>

DetectNext == CallDetectFramework

SpecDetect == InitDetect /\ [][DetectNext]_vars

\* ------------------------------------------------- API handler and routes
\* `obj[name]` / `obj.name`: a missing property reads as undefined
Prop(obj, name) ==
  IF obj.t = "object" /\ name \in DOMAIN obj.fields THEN obj.fields[name]
  ELSE Undefined

\* the methods of APIHandler
Handlers == {"findAll", "findById", "findOne", "create", "update", "delete"}

\* the instance of the concrete handler class
HandlerInstance == [t |-> "handler"]

\* `this.service` with `this` undefined
NoReceiver == Err("Cannot read properties of undefined (reading 'service')")

\* the call each handler method makes on its service
handlerCall(h, req) ==
  CASE h = "findAll" -> [op |-> "findAll", args |-> <<>>]
    [] h = "findById" -> [op |-> "findById", args |-> <<Prop(req.params, "id")>>]
    [] h = "findOne" -> [op |-> "findOne", args |-> <<req.query>>]
    [] h = "create" -> [op |-> "create", args |-> <<req.body>>]
    [] h = "update" -> [op |-> "update",
                        args |-> <<Prop(req.params, "id"), req.body>>]
    [] h = "delete" -> [op |-> "softDelete", args |-> <<Prop(req.params, "id")>>]

\* the handler method h called with receiver self, up to its await
handlerStart(self, h, req) ==
  IF self.t = "undefined"
  THEN [pc |-> "done", svcCalls |-> <<>>, outcome |-> Rejected(NoReceiver)]
  ELSE [pc |-> "awaitService", svcCalls |-> <<handlerCall(h, req)>>,
        outcome |-> Pending]

\* res.status(code).json(body)
send(code, body) ==
  <<[call |-> "status", arg |-> Num(code)], [call |-> "json", arg |-> body]>>

\* variant: the status follows the kind of the error
respond_byErrorType(h, result) ==
  IF result.type = "success"
  THEN send(IF h = "create" THEN 201 ELSE 200, result.data)
  ELSE send(CASE result.error.type = "validation" -> 400
              [] result.error.type = "not_found" -> 404
              [] OTHER -> 500, result.error)

\* the branch on the Result's tag
respond(h, result) ==
  IF result.type = "success"
  THEN send(IF h = "create" THEN 201 ELSE 200, result.data)
  ELSE send(500, result.error)

\* the handler method resumed with the settled promise of the service call
handlerResume(h, settled) ==
  IF settled.st = "rejected" THEN [res |-> <<>>, outcome |-> settled]
  ELSE [res |-> respond(h, settled.value), outcome |-> Fulfilled(Undefined)]

\* `middlewares?.name ?? []`
spread(middlewares, name) ==
  IF middlewares.t # "object" THEN <<>>
  ELSE IF Prop(middlewares, name).t # "array" THEN <<>>
  ELSE Prop(middlewares, name).items

\* a middleware function; the handler's method taken off the handler
Middleware(name) == [kind |-> "middleware", name |-> name]
Method(name) == [kind |-> "method", name |-> name]

\* `${route}/:${routeKey}`
paramPath(route, routeKey) == route \o "/:" \o routeKey

\* the registrations createRoutes makes on the app, in order
createRoutes(route, routeKey, middlewares) ==
  <<[method |-> "GET", path |-> route,
     handlers |-> spread(middlewares, "getAll") \o <<Method("findAll")>>],
    [method |-> "GET", path |-> paramPath(route, routeKey),
     handlers |-> spread(middlewares, "getById") \o <<Method("findById")>>],
    [method |-> "POST", path |-> route,
     handlers |-> spread(middlewares, "create") \o <<Method("create")>>],
    [method |-> "PUT", path |-> paramPath(route, routeKey),
     handlers |-> spread(middlewares, "update") \o <<Method("update")>>],
    [method |-> "DELETE", path |-> paramPath(route, routeKey),
     handlers |-> spread(middlewares, "delete") \o <<Method("delete")>>]>>

\* routes, route keys and middleware sets handed to createRoutes
Route == "/users"
RouteKeys == {"id", "slug", "uuid"}
MiddlewareSets ==
  {Undefined,
   Obj([getById |-> Arr(<<Middleware("auth")>>)]),
   Obj([getAll |-> Arr(<<Middleware("log")>>),
        getById |-> Arr(<<Middleware("auth"), Middleware("log")>>),
        create |-> Arr(<<Middleware("auth")>>),
        update |-> Arr(<<Middleware("auth"), Middleware("validate")>>),
        delete |-> Arr(<<Middleware("auth")>>)])}

\* the route parameters the framework binds when the path matches: the
\* name after "/:" in the registered path, bound to the value in the URL
params(path, value) ==
  IF \E key \in RouteKeys : path = Route \o "/:" \o key
  THEN LET key == CHOOSE key \in RouteKeys : path = Route \o "/:" \o key
       IN Obj([n \in {key} |-> value])
  ELSE Obj(<<>>)

\* values in the URL, request bodies, requests of direct calls
ParamValues == {Str("1"), Str("abc")}
Bodies == {Undefined, Obj([name |-> Str("test2")])}
Requests ==
  {[query |-> q, body |-> b, params |-> p] :
     q \in {Obj(<<>>), Obj([name |-> Str("test1")])},
     b \in Bodies,
     p \in {Obj([id |-> Num(1)]), Obj([slug |-> Str("abc")])}}

\* createRoutes(app, handler, route, routeKey, middlewares); the handler is
\* an instance of a concrete subclass, which may or may not have bound its
\* methods to itself
CreateRoutes ==
  /\ api.pc = "idle" /\ api.routes = <<>>
  /\ \E key \in RouteKeys, mws \in MiddlewareSets, bound \in BOOLEAN :
       api' = [api EXCEPT !.routeKey = key, !.bound = bound,
                          !.routes = createRoutes(Route, key, mws)]
  /\ UNCHANGED <<svc, calls, repoLog, legacy, pure>>

\* handler.h(req, res) called as a method
CallHandler ==
  /\ api.pc = "idle"
  /\ \E h \in Handlers, req \in Requests :
       LET started == handlerStart(HandlerInstance, h, req) IN
         api' = [api EXCEPT !.pc = started.pc, !.via = "method", !.handler = h,
                            !.req = req, !.svcCalls = started.svcCalls,
                            !.outcome = started.outcome]
  /\ UNCHANGED <<svc, calls, repoLog, legacy, pure>>

\* the framework matches a request against a registered route and runs the
\* registered functions in order, each as a plain function (req, res, next):
\* the middlewares call next, the last function is the handler's method
Dispatch ==
  /\ api.pc = "idle"
  /\ \E i \in DOMAIN api.routes, value \in ParamValues, body \in Bodies :
       LET r == api.routes[i]
           last == r.handlers[Len(r.handlers)]
           req == [query |-> Obj(<<>>), body |-> body,
                   params |-> params(r.path, value)]
           self == IF api.bound THEN HandlerInstance ELSE Undefined
           started == handlerStart(self, last.name, req)
       IN /\ last.kind = "method"
          /\ api' = [api EXCEPT !.pc = started.pc, !.via = r.method,
                                !.handler = last.name, !.req = req,
                                !.chain = SubSeq(r.handlers, 1, Len(r.handlers) - 1),
                                !.svcCalls = started.svcCalls,
                                !.outcome = started.outcome]
  /\ UNCHANGED <<svc, calls, repoLog, legacy, pure>>

\* the service's promise settles and the handler method resumes
HandlerResume ==
  /\ api.pc = "awaitService"
  /\ \E settled \in ServiceOutcomes :
       LET resumed == handlerResume(api.handler, settled) IN
         api' = [api EXCEPT !.pc = "done", !.result = settled,
                            !.res = resumed.res, !.outcome = resumed.outcome]
  /\ UNCHANGED <<svc, calls, repoLog, legacy, pure>>

InitApi == Init /\ svc = "BaseService"

ApiNext == CreateRoutes \/ CallHandler \/ Dispatch \/ HandlerResume

SpecApi == InitApi /\ [][ApiNext]_vars

\* ------------------------------------------------------------ properties
\* the Result a completed call resolved to
Resolved(k) == k.pc = "done" /\ k.outcome.st = "fulfilled"
IsFailure(k, type) ==
  /\ Resolved(k)
  /\ k.outcome.value.type = "failure"
  /\ k.outcome.value.error.type = type
IsSuccess(k) == Resolved(k) /\ k.outcome.value.type = "success"

\* a thrown value that carries a message: an Error, or an object with a
\* message field
CarriesMessage(e) ==
  InstanceOfError(e) \/ (e.t = "object" /\ "message" \in DOMAIN e.fields)
MessageOf(e) == IF InstanceOfError(e) THEN e.message ELSE e.fields.message.s

\* C1 as stated: when the repository call throws, the operation resolves to
\* a database Failure whose message is the thrown value's message whenever
\* the thrown value carries one, and the fallback string otherwise.
C1_Original ==
  \A c \in Callers :
    calls[c].repo.kind = "throw" =>
      /\ IsFailure(calls[c], "database")
      /\ calls[c].outcome.value.error.message =
           IF CarriesMessage(calls[c].repo.value)
           THEN MessageOf(calls[c].repo.value) ELSE "Database error"

\* C1 amended: when the repository call of any of the nine operations
\* throws, the operation resolves to a database Failure whose message is the
\* thrown value's message exactly when the thrown value is an Error instance
\* (an empty message included), and "Database error" for every other value.
C1_DatabaseFailure ==
  \A c \in Callers :
    calls[c].repo.kind = "throw" =>
      /\ IsFailure(calls[c], "database")
      /\ calls[c].outcome.value.error.message =
           IF calls[c].repo.value.t = "error"
           THEN calls[c].repo.value.message ELSE "Database error"

C1_Witness ==
  \E c \in Callers :
    /\ calls[c].op = "update"
    /\ calls[c].repo = Threw(Err(""))
    /\ IsFailure(calls[c], "database")
    /\ calls[c].outcome.value.error.message = ""

\* the literal text of the not_found message for the identifiers in use
NotFoundText(resource, id) ==
  CASE id = Num(1) -> resource \o " with id 1 not found"
    [] id = Num(99) -> resource \o " with id 99 not found"
    [] id = Str("99") -> resource \o " with id 99 not found"

ResourceNameOf(s) ==
  CASE s = "BaseService" -> "resource"
    [] s = "TestService" -> "testEntity"
    [] s = "ThrowingService" -> "resource"

\* the repository call returned the absence marker of its operation
ReportedAbsence(k) ==
  \/ k.op \in {"findById", "update"} /\ k.repo = Returned(Null)
  \/ k.op \in DeleteOps /\ k.repo = Returned(Bool(FALSE))

EmptyPayloads == {Obj(<<>>), Null, Undefined}

\* C3: create / update with {}, null or undefined resolve to the validation
\* Failure {type: "validation", field: "data", message: "Create data cannot
\* be empty" | "Update data cannot be empty"} and the repository is not
\* invoked for that call.
C3_Validation ==
  \A c \in Callers :
    (calls[c].op \in DataOps /\ calls[c].data \in EmptyPayloads) =>
      /\ Resolved(calls[c])
      /\ calls[c].outcome.value =
           fail([type |-> "validation", field |-> "data",
                 message |-> IF calls[c].op = "create"
                             THEN "Create data cannot be empty"
                             ELSE "Update data cannot be empty"], Undefined)
      /\ \A i \in DOMAIN repoLog : repoLog[i].caller # c

C3_Witness ==
  \E c \in Callers :
    /\ calls[c].op = "update"
    /\ calls[c].data = Null
    /\ IsFailure(calls[c], "validation")
    /\ repoLog = <<>>

\* C4: findOne: when the repository returns null the operation resolves to
\* Success with payload null, not to a Failure, and the mapping hook is not
\* called.
C4_FindOneAbsent ==
  \A c \in Callers :
    (calls[c].op = "findOne" /\ calls[c].repo = Returned(Null)) =>
      /\ Resolved(calls[c])
      /\ calls[c].outcome.value = ok(Null, Undefined)
      /\ calls[c].maps = <<>>

C4_Witness ==
  \E c \in Callers :
    /\ calls[c].op = "findOne"
    /\ calls[c].repo = Returned(Null)
    /\ IsSuccess(calls[c])
    /\ calls[c].outcome.value.data = Null

\* every mapping promise of the call has fulfilled
AllMapped(k) ==
  /\ k.maps # <<>>
  /\ \A i \in DOMAIN k.maps : k.maps[i].st = "fulfilled"

\* C5: a successful repository outcome with usable data gives Success whose
\* payload is the mapping hook's output: map(entity) for findById, findOne,
\* create, update; for findAll the outputs of the hook for each entity, same
\* length and order as the repository's collection (empty gives the empty
\* sequence); count returns the repository's number unchanged.
C5_MappedSuccess ==
  \A c \in Callers :
    LET k == calls[c] IN
      /\ (k.op \in {"findById", "findOne", "create", "update"} /\ AllMapped(k)) =>
           /\ IsSuccess(k)
           /\ k.maps[1].value = mapToResponse(svc, k.repo.value)
           /\ k.outcome.value.data = k.maps[1].value
      /\ (k.op = "findAll" /\ AllMapped(k)) =>
           /\ IsSuccess(k)
           /\ k.outcome.value.data.t = "array"
           /\ Len(k.outcome.value.data.items) = Len(k.repo.value.items)
           /\ \A i \in 1..Len(k.repo.value.items) :
                /\ k.maps[i].value = mapToResponse(svc, k.repo.value.items[i])
                /\ k.outcome.value.data.items[i] = k.maps[i].value
      /\ (k.op = "findAll" /\ k.repo = Returned(Arr(<<>>))) =>
           /\ IsSuccess(k)
           /\ k.outcome.value.data = Arr(<<>>)
      /\ (k.op = "count" /\ k.repo.kind = "return") =>
           /\ IsSuccess(k)
           /\ k.outcome.value.data = k.repo.value

C5_Witness ==
  \E c \in Callers :
    /\ svc = "TestService"
    /\ calls[c].op = "findAll"
    /\ IsSuccess(calls[c])
    /\ Len(calls[c].repo.value.items) = 2
    /\ calls[c].outcome.value.data.items[2].fields.displayName = Str("TEST1")

\* C6: no call of the orchestrator ever rejects: a completed call has
\* resolved to a Success or a Failure Result.
C6_NeverRejects ==
  \A c \in Callers :
    /\ calls[c].outcome.st # "rejected"
    /\ calls[c].pc = "done" =>
         /\ calls[c].outcome.st = "fulfilled"
         /\ calls[c].outcome.value.type \in {"success", "failure"}

C6_Witness ==
  \E c \in Callers :
    /\ calls[c].op = "count"
    /\ calls[c].repo = Threw(Null)
    /\ IsFailure(calls[c], "database")

\* a mapping promise of the call has rejected
MapRejection(k) == \E i \in DOMAIN k.maps : k.maps[i].st = "rejected"
RejectionReason(k) ==
  k.maps[CHOOSE i \in DOMAIN k.maps : k.maps[i].st = "rejected"].reason

\* C7 as stated: when the mapping hook rejects during findAll, findById,
\* findOne, create or update, the orchestrator call rejects with the hook's
\* error instead of resolving to a Failure.
C7_Original ==
  \A c \in Callers :
    MapRejection(calls[c]) =>
      /\ calls[c].pc = "done"
      /\ calls[c].outcome = Rejected(RejectionReason(calls[c]))

\* C7 amended: when the mapping hook rejects during findAll, findById,
\* findOne, create or update, the call does not reject: the rejection is
\* caught like a repository failure and the call resolves to a database
\* Failure whose message is the hook error's message when it is an Error
\* instance and "Database error" otherwise.
C7_HookFailureNormalised ==
  \A c \in Callers :
    MapRejection(calls[c]) =>
      /\ IsFailure(calls[c], "database")
      /\ calls[c].outcome.value.error.message =
           IF RejectionReason(calls[c]).t = "error"
           THEN RejectionReason(calls[c]).message ELSE "Database error"

C7_Witness ==
  \E c \in Callers :
    /\ calls[c].op = "findAll"
    /\ Len(calls[c].maps) = 2
    /\ calls[c].maps[2] = Rejected(Err("Connection failed"))
    /\ calls[c].maps[1] = Pending
    /\ IsFailure(calls[c], "database")
    /\ calls[c].outcome.value.error.message = "Connection failed"

\* the wrapped service resolved to a Success / a Failure Result
ServiceSucceeded(l) ==
  l.op \in Ops /\ l.result.st = "fulfilled" /\ l.result.value.type = "success"
ServiceFailed(l) ==
  l.op \in Ops /\ l.result.st = "fulfilled" /\ l.result.value.type = "failure"

\* C8: whenever the wrapped service resolves to Failure(e), the bridge call
\* rejects with an Error whose message is e.message, whatever the variant of
\* e and whatever the Result's own message.
C8_FailureRethrown ==
  \A c \in Callers :
    ServiceFailed(legacy[c]) =>
      /\ legacy[c].pc = "done"
      /\ legacy[c].outcome.st = "rejected"
      /\ legacy[c].outcome.reason.t = "error"
      /\ legacy[c].outcome.reason.message = legacy[c].result.value.error.message

C8_Witness ==
  \E c \in Callers :
    /\ legacy[c].op = "hardDelete"
    /\ ServiceFailed(legacy[c])
    /\ legacy[c].result.value.error.type = "validation"
    /\ legacy[c].result.value.message = Str("note")
    /\ legacy[c].outcome = Rejected(Err("Invalid email"))

\* C9: whenever the wrapped service resolves to Success(v), the bridge call
\* resolves to exactly v, for each of the nine operations; for update this
\* is claimed of every v other than undefined.
C9_SuccessUnwrapped ==
  \A c \in Callers :
    (ServiceSucceeded(legacy[c])
       /\ ~(legacy[c].op = "update" /\ legacy[c].result.value.data = Undefined)) =>
      /\ legacy[c].pc = "done"
      /\ legacy[c].outcome = Fulfilled(legacy[c].result.value.data)

\* C10: update: when the wrapped service resolves to Success with an
\* undefined payload, the bridge resolves to null.
C10_UpdateUndefinedIsNull ==
  \A c \in Callers :
    (legacy[c].op = "update" /\ ServiceSucceeded(legacy[c])
       /\ legacy[c].result.value.data = Undefined) =>
      /\ legacy[c].pc = "done"
      /\ legacy[c].outcome = Fulfilled(Null)

C10_Witness ==
  \E c \in Callers :
    /\ legacy[c].op = "update"
    /\ legacy[c].result = Fulfilled(ok(Undefined, Undefined))
    /\ legacy[c].outcome = Fulfilled(Null)

\* C11: findAll: for every order in which the per-entity mapping calls
\* complete, if all of them fulfil, the Success payload has at position i the
\* mapping output of the i-th entity of the repository's collection.
C11_OrderPreserved ==
  \A c \in Callers :
    LET k == calls[c] IN
      (k.op = "findAll" /\ AllMapped(k)) =>
        /\ IsSuccess(k)
        /\ Len(k.outcome.value.data.items) = Len(k.repo.value.items)
        /\ \A i \in 1..Len(k.repo.value.items) :
             k.outcome.value.data.items[i] = mapToResponse(svc, k.repo.value.items[i])

\* the second entity's mapping call completed before the first one's
C11_Witness ==
  \E c \in Callers :
    /\ calls[c].op = "findAll"
    /\ IsSuccess(calls[c])
    /\ calls[c].order = <<2, 1>>
    /\ calls[c].repo.value.items[1] # calls[c].repo.value.items[2]
    /\ \A i \in 1..2 :
         calls[c].outcome.value.data.items[i]
           = mapToResponse(svc, calls[c].repo.value.items[i])

\* C12: ok(x, m) has tag "success", data x unchanged (null and undefined
\* included) and message m (undefined when omitted, the empty string kept);
\* fail(e, m) has tag "failure", error e unchanged and message m; ok never
\* yields the failure tag and fail never the success tag.
C12_ConstructorsRoundTrip ==
  pure.pc = "returned" =>
    LET x == pure.args[1]
        m == IF Len(pure.args) = 2 THEN pure.args[2] ELSE Undefined IN
      /\ pure.fn = "ok" =>
           /\ pure.out.type = "success"
           /\ DOMAIN pure.out = {"type", "data", "message"}
           /\ pure.out.data = x
           /\ pure.out.message = m
      /\ pure.fn = "fail" =>
           /\ pure.out.type = "failure"
           /\ DOMAIN pure.out = {"type", "error", "message"}
           /\ pure.out.error = x
           /\ pure.out.message = m

C12_Witness ==
  /\ pure.pc = "returned"
  /\ pure.fn = "ok"
  /\ pure.args = <<Undefined, Str("")>>
  /\ pure.out.type = "success"
  /\ pure.out.data = Undefined
  /\ pure.out.message = Str("")

\* the repository calls made on behalf of caller c, in order
RepoCallsOf(c) == SelectSeq(repoLog, LAMBDA e : e.caller = c)

\* the arguments the repository operation of call k is to receive
CallerArgs(k) ==
  CASE k.op \in {"findAll", "findOne", "count"} -> <<k.options>>
    [] k.op = "create" -> <<k.data>>
    [] k.op = "update" -> <<k.id, k.data>>
    [] k.op \in {"findById", "hardDelete", "softDelete", "restore"} -> <<k.id>>

\* C13: every operation invokes its own repository operation at most once
\* per call, exactly once unless create / update short-circuits on an empty
\* payload, with the caller's id / options / data unchanged; it invokes no
\* other repository operation and none after a repository failure.
C13_NoRetries ==
  \A c \in Callers :
    LET k == calls[c]
        mine == RepoCallsOf(c) IN
      /\ Len(mine) <= 1
      /\ \A i \in DOMAIN mine : mine[i].op = k.op /\ mine[i].args = CallerArgs(k)
      /\ (k.pc # "idle" /\ ~(k.op \in DataOps /\ k.data \in EmptyPayloads)) =>
           Len(mine) = 1
      /\ (k.op \in DataOps /\ k.data \in EmptyPayloads) => Len(mine) = 0
      /\ k.repo.kind = "throw" => (Len(mine) = 1 /\ k.pc = "done")

C13_Witness ==
  \E c \in Callers :
    /\ calls[c].op = "update"
    /\ calls[c].repo = Threw(Err("Connection failed"))
    /\ calls[c].pc = "done"
    /\ RepoCallsOf(c) = <<[caller |-> c, op |-> "update",
                           args |-> <<Num(99), Obj([name |-> Str("test2")])>>]>>

\* the Result of call k as its own arguments and what the repository and the
\* mapping hook gave to it determine it
OwnResult(s, k) ==
  IF k.op \in DataOps /\ k.data \in EmptyPayloads
  THEN fail([type |-> "validation", field |-> "data",
             message |-> IF k.op = "create" THEN "Create data cannot be empty"
                         ELSE "Update data cannot be empty"], Undefined)
  ELSE IF k.repo.kind = "throw"
  THEN fail([type |-> "database",
             message |-> IF k.repo.value.t = "error" THEN k.repo.value.message
                         ELSE "Database error"], Undefined)
  ELSE IF k.op \in IdOps /\ k.repo.value \in {Null, Undefined, Bool(FALSE)}
  THEN fail([type |-> "not_found",
             message |-> NotFoundText(ResourceNameOf(s), k.id),
             resource |-> ResourceNameOf(s), id |-> k.id], Undefined)
  ELSE IF k.op = "findOne" /\ k.repo.value \in {Null, Undefined}
  THEN ok(Null, Undefined)
  ELSE IF k.op \in DeleteOps THEN ok(Bool(TRUE), Undefined)
  ELSE IF k.op = "count" THEN ok(k.repo.value, Undefined)
  ELSE IF MapRejection(k)
  THEN fail([type |-> "database",
             message |-> IF RejectionReason(k).t = "error"
                         THEN RejectionReason(k).message
                         ELSE "Database error"], Undefined)
  ELSE IF k.op = "findAll"
  THEN ok(Arr([i \in DOMAIN k.maps |-> k.maps[i].value]), Undefined)
  ELSE ok(k.maps[1].value, Undefined)

\* C14: with several operations in flight at once and their awaits
\* interleaved in any order, the Result of each call is determined by its own
\* arguments and by what the repository and the mapping hook returned to
\* that call; its outcome, error id and error message owe nothing to another
\* call.
C14_Reentrant ==
  \A c \in Callers :
    calls[c].pc = "done" => calls[c].outcome = Fulfilled(OwnResult(svc, calls[c]))

\* caller 1 called first and was told of the absence after caller 2, with
\* another identifier, had reached the repository
C14_Witness ==
  /\ calls[1].op = "findById" /\ calls[1].id = Num(1)
  /\ calls[2].op = "update" /\ calls[2].id = Num(99)
  /\ Len(repoLog) = 2 /\ repoLog[1].caller = 1 /\ repoLog[2].caller = 2
  /\ calls[2].pc = "awaitMap"
  /\ IsFailure(calls[1], "not_found")
  /\ calls[1].outcome.value.error.id = Num(1)
  /\ calls[1].outcome.value.error.message = "resource with id 1 not found"

\* C15: every Failure of a BaseService operation carries an error of type
\* database, validation or not_found with the fields of that variant;
\* validation errors come only from create and update, not_found errors only
\* from findById, update, hardDelete, softDelete and restore; findAll,
\* findOne and count fail only with a database error.
C15_ClosedTaxonomy ==
  \A c \in Callers :
    (Resolved(calls[c]) /\ calls[c].outcome.value.type = "failure") =>
      LET e == calls[c].outcome.value.error
          op == calls[c].op IN
        /\ "type" \in DOMAIN e
        /\ e.type \in {"database", "validation", "not_found"}
        /\ e.type = "validation" =>
             /\ DOMAIN e = {"type", "field", "message"}
             /\ op \in {"create", "update"}
        /\ e.type = "not_found" =>
             /\ DOMAIN e = {"type", "message", "resource", "id"}
             /\ e.id.t \in {"number", "string"}
             /\ op \in {"findById", "update", "hardDelete", "softDelete", "restore"}
        /\ e.type = "database" =>
             /\ {"type", "message"} \subseteq DOMAIN e
             /\ DOMAIN e \subseteq {"type", "message", "code"}
        /\ op \in {"findAll", "findOne", "count"} => e.type = "database"

C15_Witness ==
  \E c \in Callers :
    /\ calls[c].op = "create"
    /\ calls[c].data = Obj(<<>>)
    /\ IsFailure(calls[c], "validation")
    /\ calls[c].outcome.value.error.field = "data"

\* the arguments the caller gave to bridge call l
LegacyCallerArgs(l) ==
  CASE l.op \in {"findAll", "findOne", "count"} -> <<l.options>>
    [] l.op = "create" -> <<l.data>>
    [] l.op = "update" -> <<l.id, l.data>>
    [] l.op \in {"findById", "hardDelete", "softDelete", "restore"} -> <<l.id>>
    [] l.op = "mapToResponse" -> <<l.entity>>

\* C16: each LegacyService operation calls the same-named operation of the
\* wrapped service exactly once with the caller's arguments unchanged and
\* calls no other service operation, whatever the service answers; and
\* mapToResponse returns what the wrapped service's mapToResponse returns.
C16_NoRerouting ==
  \A c \in Callers :
    LET l == legacy[c] IN
      /\ l.pc = "idle" => l.svcCalls = <<>>
      /\ l.pc # "idle" =>
           l.svcCalls = <<[op |-> l.op, args |-> LegacyCallerArgs(l)]>>
      /\ (l.pc = "done" /\ l.op = "mapToResponse") => l.outcome = l.result

C16_Witness ==
  \E c \in Callers :
    /\ legacy[c].pc = "done"
    /\ legacy[c].op = "hardDelete"
    /\ ServiceFailed(legacy[c])
    /\ legacy[c].svcCalls = <<[op |-> "hardDelete", args |-> <<Str("99")>>]>>

\* C17: while the repository call of an operation has not settled the
\* operation has not completed: its promise is pending; and when the
\* repository call and every mapping call it triggers eventually settle, the
\* operation eventually resolves to a Result.
C17_NoTimeout ==
  /\ [](\A c \in Callers : calls[c].pc = "awaitRepo" => calls[c].outcome = Pending)
  /\ \A c \in Callers :
       (calls[c].pc # "idle") ~>
         (Resolved(calls[c]) /\ calls[c].outcome.value.type \in {"success", "failure"})

\* a call hanging on its repository call
C17_Witness ==
  \E c \in Callers :
    /\ calls[c].op = "findById"
    /\ calls[c].pc = "awaitRepo"
    /\ calls[c].repo = NotCalled
    /\ RepoCallsOf(c) # <<>>
    /\ calls[c].outcome = Pending

\* C18: a service that overrides neither hook maps an entity to itself, so
\* findById / findOne / create / update succeed with exactly the
\* repository's entity and findAll with exactly the repository's entities in
\* order; its resource name is "resource", so its not_found message reads
\* "resource with id <id> not found".
C18_DefaultHooks ==
  svc = "BaseService" =>
    \A c \in Callers :
      LET k == calls[c] IN
        /\ \A i \in DOMAIN k.maps :
             k.maps[i].st = "fulfilled" => k.maps[i].value = k.entities[i]
        /\ (k.op \in {"findById", "findOne", "create", "update"} /\ AllMapped(k)) =>
             (IsSuccess(k) /\ k.outcome.value.data = k.repo.value)
        /\ (k.op = "findAll" /\ k.pc = "done" /\ k.repo.kind = "return") =>
             (IsSuccess(k) /\ k.outcome.value.data = k.repo.value)
        /\ IsFailure(k, "not_found") =>
             /\ k.outcome.value.error.resource = "resource"
             /\ k.outcome.value.error.message = NotFoundText("resource", k.id)

C18_Witness ==
  \E c \in Callers :
    /\ svc = "BaseService"
    /\ calls[c].op = "findAll"
    /\ IsSuccess(calls[c])
    /\ calls[c].outcome.value.data =
         Arr(<<Obj([id |-> Num(2), name |-> Str("test2")]),
               Obj([id |-> Num(1), name |-> Str("test1"),
                    email |-> Str("test1@example.com")])>>)

\* a payload that is an object with at least one key
PresentPayload(data) == data.t = "object" /\ DOMAIN data.fields # {}

\* the Result of a create / update whose payload passed the presence check,
\* from the repository outcome and the mapping outcome alone
ResultOfOutcome(s, k) ==
  IF k.repo.kind = "throw"
  THEN fail([type |-> "database",
             message |-> IF k.repo.value.t = "error" THEN k.repo.value.message
                         ELSE "Database error"], Undefined)
  ELSE IF k.op = "update" /\ ~Truthy(k.repo.value)
  THEN fail([type |-> "not_found",
             message |-> NotFoundText(ResourceNameOf(s), k.id),
             resource |-> ResourceNameOf(s), id |-> k.id], Undefined)
  ELSE IF MapRejection(k)
  THEN fail([type |-> "database",
             message |-> IF RejectionReason(k).t = "error"
                         THEN RejectionReason(k).message
                         ELSE "Database error"], Undefined)
  ELSE ok(k.maps[1].value, Undefined)

IsAppObject(app) == app.t \in {"object", "array", "error"}

\* C20: detectFramework returns "fastify" whenever the app object has a
\* property named register, whatever its value and also when route is there
\* too; "hono" when it has route but not register; "express" in every other
\* case: the empty object, null, undefined, and any input that is not an
\* object (a number, a string, a boolean, a callable).
C20_DetectFramework ==
  (pure.fn = "detectFramework" /\ pure.pc = "returned") =>
    LET app == pure.args[1] IN
      pure.out =
        IF IsAppObject(app) /\ HasProperty(app, "register") THEN Str("fastify")
        ELSE IF IsAppObject(app) /\ HasProperty(app, "route") THEN Str("hono")
        ELSE Str("express")

C20_Witness ==
  /\ pure.fn = "detectFramework"
  /\ pure.pc = "returned"
  /\ pure.args = <<Obj([register |-> Str("not a function"), route |-> Num(42),
                        get |-> Null])>>
  /\ pure.out = Str("fastify")

\* the calls of operation op among the calls made on the service
ServiceCallsTo(op) == SelectSeq(api.svcCalls, LAMBDA e : e.op = op)

\* C21: handling a DELETE request (IAPIHandler.delete) invokes the service's
\* hardDelete with the request's identifier and does not invoke softDelete.
C21_DeleteIsHardDelete ==
  (api.handler = "delete" /\ api.pc \in {"awaitService", "done"}
     /\ api.via = "method") =>
    /\ ServiceCallsTo("hardDelete") =
         <<[op |-> "hardDelete", args |-> <<Prop(api.req.params, "id")>>]>>
    /\ ServiceCallsTo("softDelete") = <<>>

\* the handler method runs on its instance: called as a method, or routed
\* to a handler whose methods are bound
OnInstance == api.via = "method" \/ (api.via # "none" /\ api.bound)

\* the service operation behind each handler method
OperationOf(h) == IF h = "delete" THEN "softDelete" ELSE h

\* C22: each handler (findAll, findById, findOne, create, update, delete)
\* calls its service operation exactly once and sends exactly one response:
\* on a Success Result status 200 (201 for create) with the Result's data as
\* body, on a Failure Result status 500 with the Result's error as body,
\* whatever the type of the error.
C22_StatusMapping ==
  (OnInstance /\ api.pc \in {"awaitService", "done"}) =>
    /\ Len(api.svcCalls) = 1
    /\ api.svcCalls[1].op = OperationOf(api.handler)
    /\ api.pc = "awaitService" => (api.res = <<>> /\ api.outcome = Pending)
    /\ (api.pc = "done" /\ api.result.st = "fulfilled") =>
         /\ api.outcome = Fulfilled(Undefined)
         /\ Len(api.res) = 2
         /\ api.res[1].call = "status" /\ api.res[2].call = "json"
         /\ api.result.value.type = "success" =>
              /\ api.res[1].arg = Num(IF api.handler = "create" THEN 201 ELSE 200)
              /\ api.res[2].arg = api.result.value.data
         /\ api.result.value.type = "failure" =>
              /\ api.res[1].arg = Num(500)
              /\ api.res[2].arg = api.result.value.error

C22_Witness ==
  /\ api.via = "method"
  /\ api.handler = "findById"
  /\ api.pc = "done"
  /\ api.result.st = "fulfilled"
  /\ api.result.value.type = "failure"
  /\ api.result.value.error.type = "not_found"
  /\ api.res = <<[call |-> "status", arg |-> Num(500)],
                 [call |-> "json", arg |-> api.result.value.error]>>

\* C23: in create and update the empty-payload check comes first: with an
\* empty payload the call resolves to the validation Failure at once,
\* whatever the id, and the repository is never consulted; with a non-empty
\* payload a throwing repository gives the database Failure; and not_found
\* is produced only by update, only when the repository call returned
\* normally with an absent entity.
C23_ErrorPrecedence ==
  \A c \in Callers :
    LET k == calls[c] IN
      k.op \in DataOps =>
        /\ IsEmptyData(k.data) =>
             /\ IsFailure(k, "validation")
             /\ k.repo = NotCalled
             /\ RepoCallsOf(c) = <<>>
        /\ (~IsEmptyData(k.data) /\ k.repo # NotCalled /\ k.repo.kind = "throw") =>
             IsFailure(k, "database")
        /\ IsFailure(k, "not_found") =>
             /\ k.op = "update"
             /\ ~IsEmptyData(k.data)
             /\ k.repo # NotCalled
             /\ k.repo.kind = "return"
             /\ k.repo.value \in {Null, Undefined}

C23_Witness ==
  \E c \in Callers :
    /\ calls[c].op = "update"
    /\ calls[c].id = Num(99)
    /\ calls[c].data = Obj(<<>>)
    /\ IsFailure(calls[c], "validation")
    /\ RepoCallsOf(c) = <<>>

EntitiesToMap(k) ==
  IF k.repo = NotCalled \/ k.repo.kind = "throw" THEN <<>>
  ELSE IF k.op = "findAll" THEN k.repo.value.items
  ELSE IF k.op \in {"findById", "findOne", "create", "update"} /\ Truthy(k.repo.value)
  THEN <<k.repo.value>>
  ELSE <<>>

\* C25: the mapping hook is invoked only on entities the repository
\* returned: once per entity of the collection in findAll, in order; once in
\* findById, findOne, create and update when an entity was returned; not at
\* all when the repository threw or reported absence, when validation
\* short-circuited, or in hardDelete, softDelete, restore and count; and
\* never before the repository call has completed.
C25_HookInvocations ==
  \A c \in Callers :
    LET k == calls[c] IN
      /\ k.entities = EntitiesToMap(k)
      /\ Len(k.maps) = Len(k.entities)
      /\ k.maps # <<>> =>
           /\ k.repo # NotCalled
           /\ k.repo.kind = "return"
           /\ Len(RepoCallsOf(c)) = 1
      /\ (k.op \in DeleteOps \cup {"count"}) => k.maps = <<>>
      /\ IsFailure(k, "validation") => k.maps = <<>>
      /\ IsFailure(k, "not_found") => k.maps = <<>>

C25_Witness ==
  \E c \in Callers :
    /\ calls[c].op = "findAll"
    /\ calls[c].pc = "awaitMap"
    /\ Len(calls[c].repo.value.items) = 2
    /\ calls[c].entities = calls[c].repo.value.items
    /\ calls[c].maps = <<Pending, Pending>>

\* the mapping call of k that rejected first in time
FirstRejected(k) ==
  k.order[CHOOSE p \in DOMAIN k.order :
            /\ k.maps[k.order[p]].st = "rejected"
            /\ \A q \in 1..(p - 1) : k.maps[k.order[q]].st # "rejected"]

\* C26: findAll gives no partial success: the mapping calls of all entities
\* are started before any of them is awaited; as soon as one of them rejects
\* the operation resolves to one database Failure, never to a Success with a
\* subset of the entities; when several mapping calls reject, the message is
\* that of the call that rejected first in time, not that of the entity with
\* the lowest index.
C26_NoPartialSuccess ==
  \A c \in Callers :
    LET k == calls[c] IN
      k.op = "findAll" =>
        /\ k.maps # <<>> => Len(k.maps) = Len(k.repo.value.items)
        /\ k.pc = "awaitMap" => \A i \in DOMAIN k.maps : k.maps[i].st # "rejected"
        /\ MapRejection(k) =>
             /\ IsFailure(k, "database")
             /\ k.outcome.value.error.message =
                  IF k.maps[FirstRejected(k)].reason.t = "error"
                  THEN k.maps[FirstRejected(k)].reason.message
                  ELSE "Database error"
        /\ IsSuccess(k) =>
             /\ Len(k.outcome.value.data.items) = Len(k.repo.value.items)
             /\ \A i \in DOMAIN k.maps : k.maps[i].st = "fulfilled"

C26_Witness ==
  \E c \in Callers :
    /\ calls[c].op = "findAll"
    /\ calls[c].order = <<2, 1>>
    /\ calls[c].maps = <<Rejected(Err("Connection failed")), Rejected(Err(""))>>
    /\ IsFailure(calls[c], "database")
    /\ calls[c].outcome.value.error.message = ""

\* the value the catch block of call k caught: what the repository threw,
\* or the reason of the mapping call that rejected first
Caught(k) ==
  IF k.repo.kind = "throw" THEN k.repo.value
  ELSE k.maps[FirstRejected(k)].reason

\* C27: in the database-failure path the message is the caught value's own
\* message exactly when that value is an Error instance (an Error with an
\* empty message gives the empty string, not the fallback); for every other
\* caught value (a string, a number, null, a plain object even with a message
\* field) it is "Database error"; the database error never carries a code.
C27_MessageExtraction ==
  \A c \in Callers :
    LET k == calls[c] IN
      IsFailure(k, "database") =>
        /\ k.repo.kind = "throw" \/ MapRejection(k)
        /\ DOMAIN k.outcome.value.error = {"type", "message"}
        /\ Caught(k).t = "error" =>
             k.outcome.value.error.message = Caught(k).message
        /\ Caught(k).t \in {"string", "number", "null", "undefined", "object"} =>
             k.outcome.value.error.message = "Database error"
        /\ (k.outcome.value.error.message # "Database error") => Caught(k).t = "error"

C27_Witness ==
  \E c \in Callers :
    /\ calls[c].op = "count"
    /\ calls[c].repo.kind = "throw"
    /\ calls[c].repo.value = [t |-> "error", message |-> "duplicate key", code |-> "23505"]
    /\ IsFailure(calls[c], "database")
    /\ calls[c].outcome.value.error = [type |-> "database", message |-> "duplicate key"]

\* the repository of the wrapped service returned a falsy value where an
\* entity or a flag was expected
Absent(k) == k.repo # NotCalled /\ k.repo.kind = "return" /\ ~Truthy(k.repo.value)

\* the message of a validation Failure of create / update
EmptyDataText(op) ==
  IF op = "create" THEN "Create data cannot be empty"
  ELSE "Update data cannot be empty"

KeyedRoute(method) ==
  CHOOSE r \in {api.routes[i] : i \in DOMAIN api.routes} :
    r.method = method /\ r.path = Route \o "/:" \o api.routeKey

\* C29: for every routeKey K given to createRoutes, the routes GET / PUT /
\* DELETE <route>/:K are registered with the caller's middlewares before the
\* handler, and a request matched by them reaches the service's findById /
\* update / softDelete with the value bound to route parameter K as the
\* identifier.
C29_RouteKeyConsistency ==
  api.routes # <<>> =>
    /\ \A method \in {"GET", "PUT", "DELETE"} :
         /\ \E i \in DOMAIN api.routes :
              api.routes[i].method = method
                /\ api.routes[i].path = Route \o "/:" \o api.routeKey
         /\ LET h == KeyedRoute(method).handlers IN
              /\ h[Len(h)].kind = "method"
              /\ \A i \in 1..(Len(h) - 1) : h[i].kind = "middleware"
    /\ (api.via \in {"GET", "PUT", "DELETE"}
          /\ api.handler \in {"findById", "update", "delete"}) =>
         /\ api.chain = SubSeq(KeyedRoute(api.via).handlers, 1,
                               Len(KeyedRoute(api.via).handlers) - 1)
         /\ Len(api.svcCalls) = 1
         /\ api.svcCalls[1].op = OperationOf(api.handler)
         /\ api.svcCalls[1].args[1] = Prop(api.req.params, api.routeKey)
         /\ api.svcCalls[1].args[1] \in ParamValues

====
